---- MODULE Spec2Model ----
(***************************************************************************)
(* A model of frontend/app.js, the Tolkien dashboard client: the           *)
(* resolution of API_BASE, the localStorage cache slot, isUsable, the      *)
(* formatters, renderDashboard over the DOM's display slots, and the       *)
(* polling loop (initial paint, fetchDashboard, setInterval).              *)
(*                                                                         *)
(* Encodings.                                                              *)
(*  - A JavaScript value is a record tagged by k: "undefined", "null",     *)
(*    "bool", "num" (the decimal m / 10^e), "inf" (+Infinity), "nan",      *)
(*    "str", "arr", "obj".                                                 *)
(*  - A JavaScript string is a sequence of chunks whose concatenation is   *)
(*    the string: digits and signs are chunks of one character, fixed      *)
(*    literals of the source are one chunk.  Characters outside ASCII are  *)
(*    written as their code point ("U+2014").                              *)
(*  - A JSON text is modelled by the tree it denotes; a number literal     *)
(*    beyond the range of a double (1e999) is the leaf "inf", which        *)
(*    JSON.parse reads as Infinity and JSON.stringify writes as null.      *)
(*  - toLocaleString is modelled for the en-US locale.                     *)
(***************************************************************************)
EXTENDS Integers, Sequences, FiniteSets, TLC

VARIABLES
    hostname,   \* location.hostname
    override,   \* window.API_BASE as the page sets it
    apiBase,    \* the constant API_BASE once the script has run
    present,    \* the ids of the display elements the page holds
    dom,        \* the content of each present element
    cache,      \* localStorage[CACHE_KEY]
    pc,         \* "load": script not yet run; "running"; "crashed"
    timerArmed, \* setInterval(fetchDashboard, 5000) has been called
    inflight,   \* the ids of the requests awaiting their response
    nextId,     \* the number of requests issued so far
    loads,      \* the number of page loads so far
    shown,      \* what renderDashboard was last given: 0 nothing since the page
                \* loaded, -1 the cached snapshot, n > 0 the response to request n
    ev,         \* the last step taken, with what it was given
    cache0,     \* the cache slot at the first page load
    lastStored, \* the body of the last usable response that was saved
    arg,        \* the input of the pure function applied
    out,        \* its output
    phase       \* "in" before, "out" after the function is applied

vars == <<hostname, override, apiBase, present, dom, cache, pc, timerArmed,
          inflight, nextId, loads, shown, ev, cache0, lastStored, arg, out, phase>>

-----------------------------------------------------------------------------
(* JavaScript values *)

Undef == [k |-> "undefined"]
Null == [k |-> "null"]
NaN == [k |-> "nan"]
Inf == [k |-> "inf"]
Bool(b) == [k |-> "bool", b |-> b]
Num(m, e) == [k |-> "num", m |-> m, e |-> e]
Str(s) == [k |-> "str", s |-> s]
Arr(a) == [k |-> "arr", a |-> a]
Obj(f) == [k |-> "obj", f |-> f]

Zero == Num(0, 0)

\* d.name: undefined unless d is an object that has the property
Get(d, name) == IF d.k = "obj" /\ name \in DOMAIN d.f THEN d.f[name] ELSE Undef

\* ToBoolean
Truthy(v) ==
    CASE v.k \in {"undefined", "null", "nan"} -> FALSE
      [] v.k = "bool" -> v.b
      [] v.k = "num" -> v.m # 0
      [] v.k = "str" -> v.s # <<>>
      [] OTHER -> TRUE

\* a || b
OrElse(a, b) == IF Truthy(a) THEN a ELSE b

\* a ?? b
Nullish(a, b) == IF a.k \in {"undefined", "null"} THEN b ELSE a

Range(s) == {s[i] : i \in DOMAIN s}

DigitChars == <<"0", "1", "2", "3", "4", "5", "6", "7", "8", "9">>
Digit(i) == DigitChars[i + 1]
IsDigit(c) == c \in Range(DigitChars)
DigitVal(c) == CHOOSE i \in 0..9 : Digit(i) = c

RECURSIVE DigitsVal(_)
DigitsVal(t) ==
    IF t = <<>> THEN 0
    ELSE 10 * DigitsVal(SubSeq(t, 1, Len(t) - 1)) + DigitVal(t[Len(t)])

\* StringToNumber on an unsigned decimal literal: digits, at most one "."
ParseUnsigned(t) ==
    LET dots == {i \in DOMAIN t : t[i] = "."}
        ds   == SelectSeq(t, LAMBDA c : c # ".")
    IN  IF Cardinality(dots) > 1 \/ ds = <<>> \/ \E i \in DOMAIN ds : ~IsDigit(ds[i])
        THEN NaN
        ELSE Num(DigitsVal(ds),
                 IF dots = {} THEN 0 ELSE Len(t) - (CHOOSE i \in dots : TRUE))

\* StringToNumber: "" is 0, "Infinity", a signed decimal literal, else NaN
StrToNum(t) ==
    IF t = <<>> THEN Zero
    ELSE IF t = <<"Infinity">> \/ t = <<"+", "Infinity">> THEN Inf
    ELSE IF Head(t) = "-"
         THEN LET n == ParseUnsigned(Tail(t))
              IN  IF n.k = "num" THEN Num(0 - n.m, n.e) ELSE NaN
    ELSE IF Head(t) = "+" THEN ParseUnsigned(Tail(t))
    ELSE ParseUnsigned(t)

\* the number of decimal digits of n >= 0
RECURSIVE NumDigits(_)
NumDigits(n) == IF n < 10 THEN 1 ELSE 1 + NumDigits(n \div 10)

RECURSIVE NatText(_)
NatText(n) == IF n < 10 THEN <<Digit(n)>> ELSE NatText(n \div 10) \o <<Digit(n % 10)>>

\* the last w digits of n, zero-padded
RECURSIVE FixedDigits(_, _)
FixedDigits(n, w) ==
    IF w = 0 THEN <<>> ELSE FixedDigits(n \div 10, w - 1) \o <<Digit(n % 10)>>

\* the same without trailing zeros
RECURSIVE FracText(_, _)
FracText(n, w) ==
    IF n = 0 \/ w = 0 THEN <<>>
    ELSE IF n % 10 = 0 THEN FracText(n \div 10, w - 1)
    ELSE FixedDigits(n, w)

Abs(i) == IF i < 0 THEN 0 - i ELSE i

\* m / 10^e without trailing zeros in the fraction
RECURSIVE Normal(_, _)
Normal(m, e) == IF e > 0 /\ m % 10 = 0 THEN Normal(m \div 10, e - 1) ELSE Num(m, e)

\* exponential notation of m / 10^e (m > 0) with its digits as they are:
\* d[.ddd]e(+|-)x
ExpText(m, e) ==
    LET nd == NumDigits(m)
        x  == nd - 1 - e
        ds == NatText(m)
    IN  <<ds[1]>> \o (IF nd > 1 THEN <<".">> \o Tail(ds) ELSE <<>>)
        \o <<"e", IF x < 0 THEN "-" ELSE "+">> \o NatText(Abs(x))

\* Number::toString of the finite number m / 10^e
NumText(m0, e0) ==
    LET n  == Normal(Abs(m0), e0)
        m  == n.m
        e  == n.e
        sg == IF m0 < 0 THEN <<"-">> ELSE <<>>
        x  == NumDigits(m) - 1 - e
    IN  IF m = 0 THEN <<"0">>
        ELSE IF e = 0 THEN sg \o NatText(m)
        ELSE IF x < -6 THEN sg \o ExpText(m, e)
        ELSE sg \o NatText(m \div 10^e) \o <<".">> \o FixedDigits(m % 10^e, e)

\* ToString, as a template literal applies it
RECURSIVE ToStr(_)
ToStr(v) ==
    CASE v.k = "undefined" -> <<"undefined">>
      [] v.k = "null" -> <<"null">>
      [] v.k = "nan" -> <<"NaN">>
      [] v.k = "inf" -> <<"Infinity">>
      [] v.k = "bool" -> IF v.b THEN <<"true">> ELSE <<"false">>
      [] v.k = "num" -> NumText(v.m, v.e)
      [] v.k = "str" -> v.s
      [] v.k = "arr" ->
            IF v.a = <<>> THEN <<>>
            ELSE LET el(i) == IF v.a[i].k \in {"undefined", "null"} THEN <<>>
                              ELSE ToStr(v.a[i])
                     rest == ToStr(Arr(Tail(v.a)))
                 IN  IF Len(v.a) = 1 THEN el(1) ELSE el(1) \o <<",">> \o rest
      [] OTHER -> <<"[object Object]">>

\* Number(v): ToNumber
ToNumber(v) ==
    CASE v.k \in {"undefined", "nan", "obj"} -> NaN
      [] v.k = "null" -> Zero
      [] v.k = "bool" -> IF v.b THEN Num(1, 0) ELSE Zero
      [] v.k \in {"num", "inf"} -> v
      [] v.k = "str" -> StrToNum(v.s)
      [] v.k = "arr" -> StrToNum(ToStr(v))

\* x > 0, x >= 0 and x < 0 on the result of ToNumber
Gt0(n) == n.k = "inf" \/ (n.k = "num" /\ n.m > 0)
Ge0(n) == n.k = "inf" \/ (n.k = "num" /\ n.m >= 0)
Lt0(n) == n.k = "num" /\ n.m < 0

\* m / 10^e >= 10^-j, for m > 0
GePow(m, e, j) == IF e <= j THEN m >= 1 ELSE m >= 10^(e - j)

\* |m| / 10^e rounded to k fractional digits, half away from zero, times 10^k
RoundScaled(m, e, k) ==
    IF e <= k THEN Abs(m) * 10^(k - e)
    ELSE (Abs(m) + 5 * 10^(e - k - 1)) \div 10^(e - k)

RECURSIVE GroupedNat(_)
GroupedNat(n) ==
    IF n < 1000 THEN NatText(n)
    ELSE GroupedNat(n \div 1000) \o <<",">> \o FixedDigits(n % 1000, 3)

\* n.toLocaleString(undefined, {maximumFractionDigits: k})
LocaleText(n, k) ==
    CASE n.k = "nan" -> <<"NaN">>
      [] n.k = "inf" -> <<"U+221E">>
      [] OTHER ->
            LET r    == RoundScaled(n.m, n.e, k)
                frac == FracText(r % 10^k, k)
            IN  (IF n.m < 0 THEN <<"-">> ELSE <<>>)
                \o GroupedNat(r \div 10^k)
                \o (IF frac = <<>> THEN <<>> ELSE <<".">> \o frac)

\* p.toFixed(k), p > 0
FixedText(n, k) ==
    IF n.k = "inf" THEN <<"Infinity">>
    ELSE LET r == RoundScaled(n.m, n.e, k)
         IN  NatText(r \div 10^k) \o <<".">> \o FixedDigits(r % 10^k, k)

\* p.toExponential(2), p > 0 finite
ExponentialText(n) ==
    LET nd == NumDigits(n.m)
        r  == IF nd <= 3 THEN n.m * 10^(3 - nd) ELSE RoundScaled(n.m, nd - 3, 0)
        c  == r >= 1000
        x  == nd - 1 - n.e + (IF c THEN 1 ELSE 0)
        mt == IF c THEN 100 ELSE r
    IN  <<Digit(mt \div 100), ".", Digit((mt \div 10) % 10), Digit(mt % 10),
          "e", IF x < 0 THEN "-" ELSE "+">> \o NatText(Abs(x))

-----------------------------------------------------------------------------
(* Formatters *)

\* Number(n) || 0
NumberOrZero(n) == OrElse(ToNumber(n), Zero)

fmtUSD(n) == <<"$">> \o LocaleText(NumberOrZero(n), 2)

fmtPct(n) ==
    (IF Ge0(ToNumber(n)) THEN <<"+">> ELSE <<>>)
    \o LocaleText(ToNumber(OrElse(n, Zero)), 1) \o <<"%">>

fmtPrice(n) ==
    LET p == NumberOrZero(n)
    IN  IF p.k = "inf" THEN <<"$">> \o FixedText(p, 4)
        ELSE IF p.m > 0 /\ GePow(p.m, p.e, 2) THEN <<"$">> \o FixedText(p, 4)
        ELSE IF p.m > 0 /\ GePow(p.m, p.e, 6) THEN <<"$">> \o FixedText(p, 8)
        ELSE IF p.m > 0 THEN <<"$">> \o ExponentialText(p)
        ELSE <<"$0.00">>

-----------------------------------------------------------------------------
(* Cache helpers *)

Absent == [k |-> "absent"]          \* getItem gives null
EmptyText == [k |-> "empty"]        \* the slot holds ""
Corrupt == [k |-> "corrupt"]        \* a text JSON.parse rejects
Text(tree) == [k |-> "text", v |-> tree]

\* JSON.stringify: a non-finite number is written as null
RECURSIVE Serialize(_)
Serialize(v) ==
    CASE v.k \in {"inf", "nan", "undefined"} -> Null
      [] v.k = "arr" -> Arr([i \in DOMAIN v.a |-> Serialize(v.a[i])])
      [] v.k = "obj" -> Obj([n \in DOMAIN v.f |-> Serialize(v.f[n])])
      [] OTHER -> v

JSONstringify(v) == Text(Serialize(v))

\* JSON.parse of a text it accepts: the tree, a literal beyond a double's
\* range read as Infinity
JSONparse(t) == t.v

\* loadCache: null when getItem throws, the slot is missing or "", or
\* JSON.parse throws
loadCache(slot, readOk) ==
    IF ~readOk \/ slot.k \in {"absent", "empty", "corrupt"} THEN Null
    ELSE JSONparse(slot)

\* saveCache: the slot after the call; a throwing setItem leaves it alone
saveCache(slot, d, writeOk) == IF writeOk THEN JSONstringify(d) ELSE slot

\* isUsable with >= for >: the all-zero placeholder passes
isUsableNonNegative(d) ==
    /\ Truthy(d)
    /\ \/ Ge0(ToNumber(Get(d, "price_usd")))
       \/ Ge0(ToNumber(Get(d, "market_cap_usd")))
       \/ (Get(d, "transactions").k = "arr" /\ Len(Get(d, "transactions").a) > 0)

\* isUsable without Array.isArray: d.transactions && d.transactions.length > 0
isUsableAnyLength(d) ==
    /\ Truthy(d)
    /\ \/ Gt0(ToNumber(Get(d, "price_usd")))
       \/ Gt0(ToNumber(Get(d, "market_cap_usd")))
       \/ LET t == Get(d, "transactions")
          IN  \/ (t.k = "arr" /\ Len(t.a) > 0)
              \/ (t.k = "str" /\ t.s # <<>>)
              \/ Gt0(ToNumber(Get(t, "length")))

isUsable(d) ==
    /\ Truthy(d)
    /\ \/ Gt0(ToNumber(Get(d, "price_usd")))
       \/ Gt0(ToNumber(Get(d, "market_cap_usd")))
       \/ (Get(d, "transactions").k = "arr" /\ Len(Get(d, "transactions").a) > 0)

-----------------------------------------------------------------------------
(* API_BASE *)

DevBase == <<"http://127.0.0.1:8000">>

\* /^(localhost|127\.)/.test(location.hostname)
isLocal(h) == h # <<>> /\ Head(h) \in {"localhost", "127."}

\* s.replace(/\/+$/, '')
RECURSIVE StripTrailingSlashes(_)
StripTrailingSlashes(s) ==
    IF s # <<>> /\ s[Len(s)] = "/" THEN StripTrailingSlashes(SubSeq(s, 1, Len(s) - 1))
    ELSE s

ResolveApiBase(h, o) ==
    StripTrailingSlashes(OrElse(o, Str(IF isLocal(h) THEN DevBase ELSE <<>>)).s)

-----------------------------------------------------------------------------
(* renderDashboard *)

TextSlots == {"statPrice", "statVolume", "statBuybacks", "statBurned",
              "goalLabel", "goalPctLabel", "burnPctLabel", "contractAddress"}
WidthSlots == {"goalFill", "burnFill"}
Slots == TextSlots \cup WidthSlots \cup {"txList"}

\* el.textContent = val (or style.width, or innerHTML) when $(id) exists
SetIf(dm, id, val) == IF id \in DOMAIN dm THEN [dm EXCEPT ![id] = val] ELSE dm

\* Math.max(0, Math.min(100, Number(pct) || 0))
Clamp(pct) ==
    LET n == NumberOrZero(pct)
    IN  IF n.k = "inf" THEN Num(100, 0)
        ELSE IF n.m >= 100 * 10^n.e THEN Num(100, 0)
        ELSE IF n.m < 0 THEN Zero
        ELSE n

setWidth(dm, id, pct) == SetIf(dm, id, ToStr(Clamp(pct)) \o <<"%">>)

\* toUpperCase on the strings of the model
UpperChunk(c) ==
    CASE c = "burn" -> "BURN"
      [] c = "buyback" -> "BUYBACK"
      [] c = "claim" -> "CLAIM"
      [] c = "mint" -> "MINT"
      [] OTHER -> c

ToUpperCase(s) == [i \in DOMAIN s |-> UpperChunk(s[i])]

KindIs(tx, name) == Get(tx, "kind") = Str(<<name>>)

\* the map callback throws a TypeError: tx is null, or tx.kind is truthy and
\* has no toUpperCase
CardThrows(tx) ==
    \/ tx.k \in {"null", "undefined"}
    \/ (Truthy(Get(tx, "kind")) /\ Get(tx, "kind").k # "str")

Card(tx) ==
    LET icon  == IF KindIs(tx, "burn") THEN "U+1F525"
                 ELSE IF KindIs(tx, "buyback") THEN "U+1F300"
                 ELSE IF KindIs(tx, "claim") THEN "U+1F4B8"
                 ELSE "U+2139 U+FE0F"
        title == IF KindIs(tx, "burn") THEN "Burn transaction"
                 ELSE IF KindIs(tx, "buyback") THEN "Buy-back"
                 ELSE IF KindIs(tx, "claim") THEN "Claim creator fee"
                 ELSE "Event"
        meta  == ToUpperCase(OrElse(Get(tx, "kind"), Str(<<>>)).s)
                 \o <<" U+2014 ">> \o ToStr(Nullish(Get(tx, "amount_sol"), Zero))
                 \o <<" SOL">>
        desc  == ToStr(OrElse(Get(tx, "description"), Str(<<>>)))
        when  == IF Truthy(Get(tx, "timestamp"))
                 THEN <<"new Date(">> \o ToStr(Get(tx, "timestamp"))
                      \o <<").toLocaleString()">>
                 ELSE <<>>
        href  == IF Truthy(Get(tx, "signature"))
                 THEN <<"https://solscan.io/tx/">> \o ToStr(Get(tx, "signature"))
                 ELSE <<"#">>
        safe  == IF Truthy(Get(tx, "signature"))
                 THEN <<"target=\"_blank\" rel=\"noreferrer\"">>
                 ELSE <<>>
    IN  <<"<div class=\"card compact skinny flex-shrink-0 snap-start\">",
          "<div class=\"flex items-center justify-center text-4xl text-neon mb-3\">",
          icon, "</div>", "<h3 class=\"font-semibold mb-1\">", title, "</h3>",
          "<div class=\"meta mb-2\">">> \o meta
        \o <<"</div>", "<p class=\"text-xs mb-4\">">> \o desc
        \o <<"<br><span class=\"opacity-60\">">> \o when
        \o <<"</span></p>", "<div><a href=\"">> \o href \o <<"\" ">> \o safe
        \o <<" class=\"card-button block text-center\">VIEW TRANSACTION</a></div>",
             "</div>">>

NoTransactions == <<"<div class=\"text-sm opacity-70 px-2\">No recent transactions.</div>">>

RECURSIVE JoinCards(_)
JoinCards(a) == IF a = <<>> THEN <<>> ELSE Card(Head(a)) \o JoinCards(Tail(a))

\* (d.transactions || []).map(...) throws: the value is truthy and no array,
\* or the callback throws on an entry
MapThrows(d) ==
    LET t == OrElse(Get(d, "transactions"), Arr(<<>>))
    IN  t.k # "arr" \/ \E i \in DOMAIN t.a : CardThrows(t.a[i])

\* cards.join('') || placeholder
TxListHtml(d) ==
    LET t == OrElse(Get(d, "transactions"), Arr(<<>>))
    IN  IF t.a = <<>> THEN NoTransactions ELSE JoinCards(t.a)

\* the contract address written like the other slots, whatever d.token_mint is
SetContractAlways(dm, d) == SetIf(dm, "contractAddress", ToStr(Get(d, "token_mint")))

\* the contract address is written when the element exists and d.token_mint
\* is truthy
SetContract(dm, d) ==
    IF Truthy(Get(d, "token_mint"))
    THEN SetIf(dm, "contractAddress", ToStr(Get(d, "token_mint")))
    ELSE dm

\* the transaction list: nothing when the element is missing; a TypeError
\* leaves it as it was
SetTxList(dm, d) ==
    IF "txList" \notin DOMAIN dm \/ MapThrows(d) THEN dm
    ELSE [dm EXCEPT !["txList"] = TxListHtml(d)]

\* renderDashboard(d) on the DOM dm, d truthy: the DOM after the call and
\* whether the call threw
renderDashboard(d, dm) ==
    LET d1 == SetIf(dm, "statPrice", fmtPrice(Get(d, "price_usd")))
        d2 == SetIf(d1, "statVolume", fmtPct(Get(d, "volume_change_pct")))
        d3 == SetIf(d2, "statBuybacks", fmtUSD(Get(d, "buybacks_usd")))
        d4 == SetIf(d3, "statBurned", fmtUSD(Get(d, "burned_usd")))
        d5 == SetIf(d4, "goalLabel",
                    <<"(">> \o fmtUSD(Get(d, "market_cap_usd")) \o <<" / ">>
                    \o fmtUSD(Get(d, "next_goal_usd")) \o <<")">>)
        d6 == SetIf(d5, "goalPctLabel",
                    ToStr(Get(d, "next_goal_progress_pct")) \o <<"%">>)
        d7 == setWidth(d6, "goalFill", Get(d, "next_goal_progress_pct"))
        d8 == SetIf(d7, "burnPctLabel", ToStr(Get(d, "supply_burned_pct")) \o <<"%">>)
        d9 == setWidth(d8, "burnFill", Get(d, "supply_burned_pct"))
        d10 == SetContract(d9, d)
    IN  [dom   |-> SetTxList(d10, d),
         threw |-> "txList" \in DOMAIN dm /\ MapThrows(d)]

-----------------------------------------------------------------------------
(* fetchDashboard *)

\* a response: the fetch promise rejected, or r.ok and the body's text
Response(rejected, ok, body) == [rejected |-> rejected, ok |-> ok, body |-> body]
NoResponse == Response(FALSE, FALSE, Absent)

\* the try block without the check of r.ok
TryBlockIgnoreStatus(resp, dm, slot, writeOk) ==
    LET quiet == [dom |-> dm, cache |-> slot, d |-> Undef, rendered |-> FALSE,
                  saved |-> FALSE, threw |-> FALSE]
    IN  IF resp.rejected \/ resp.body.k # "text"
        THEN [quiet EXCEPT !.threw = TRUE]
        ELSE LET data == JSONparse(resp.body)
                 r    == renderDashboard(data, dm)
             IN  IF isUsable(data)
                 THEN [dom |-> r.dom, cache |-> saveCache(slot, data, writeOk),
                       d |-> data, rendered |-> TRUE, saved |-> TRUE,
                       threw |-> r.threw]
                 ELSE [quiet EXCEPT !.d = data]

\* the try block from the point where fetch settles (lines 70 to 77): the DOM
\* and the slot after it, and whether it threw
TryBlock(resp, dm, slot, writeOk) ==
    LET quiet == [dom |-> dm, cache |-> slot, d |-> Undef, rendered |-> FALSE,
                  saved |-> FALSE, threw |-> FALSE]
    IN  IF resp.rejected \/ ~resp.ok \/ resp.body.k # "text"
        THEN [quiet EXCEPT !.threw = TRUE]
        ELSE LET data == JSONparse(resp.body)
                 r    == renderDashboard(data, dm)
             IN  IF isUsable(data)
                 THEN [dom |-> r.dom, cache |-> saveCache(slot, data, writeOk),
                       d |-> data, rendered |-> TRUE, saved |-> TRUE,
                       threw |-> r.threw]
                 ELSE [quiet EXCEPT !.d = data]

\* the catch clause (lines 78 to 80): what the try block threw is logged and
\* nothing leaves the function
CatchClause(t) ==
    [dom |-> t.dom, cache |-> t.cache, d |-> t.d, rendered |-> t.rendered,
     saved |-> t.saved, logged |-> t.threw, threw |-> FALSE]

\* fetchDashboard resumed with the response to its request
fetchDashboard(resp, dm, slot, writeOk) == CatchClause(TryBlock(resp, dm, slot, writeOk))

\* fetchDashboard without its guard on API_BASE
IssuesRequestAlways(base) == TRUE

\* if (!API_BASE) return: whether a call of fetchDashboard issues a request
IssuesRequest(base) == base # <<>>

\* a tick that is skipped while a request is in flight
OnTickSkipBusy(base, flying, id) ==
    IF base # <<>> /\ flying = {} THEN flying \cup {id} ELSE flying

\* what happens when the timer fires: a new request unless API_BASE is empty,
\* whatever is in flight
OnTick(base, flying, id) == IF IssuesRequest(base) THEN flying \cup {id} ELSE flying

-----------------------------------------------------------------------------
(* Inputs *)

MaxRequests == 2
MaxLoads == 2

SnapshotFields == {"price_usd", "volume_change_pct", "buybacks_usd", "burned_usd",
                   "market_cap_usd", "next_goal_usd", "next_goal_progress_pct",
                   "supply_burned_pct", "token_mint", "transactions"}

\* the JSON object with the properties of f that are not undefined
ObjOf(f) == Obj([n \in {x \in DOMAIN f : f[x] # Undef} |-> f[n]])

Snap(price, vol, mcap, goalPct, burnPct, mint, txs) ==
    ObjOf([price_usd |-> price, volume_change_pct |-> vol,
           buybacks_usd |-> Num(1200, 0), burned_usd |-> Num(35055, 2),
           market_cap_usd |-> mcap, next_goal_usd |-> Num(1000000, 0),
           next_goal_progress_pct |-> goalPct, supply_burned_pct |-> burnPct,
           token_mint |-> mint, transactions |-> txs])

TxBurn == Obj([kind |-> Str(<<"burn">>), amount_sol |-> Num(25, 1)])
TxBuyback == Obj([kind |-> Str(<<"buyback">>), amount_sol |-> Num(1, 0),
                  description |-> Str(<<"weekly buy-back">>),
                  timestamp |-> Str(<<"2024-05-01T12:00:00Z">>),
                  signature |-> Str(<<"5hG7sig">>)])
TxClaim == Obj([kind |-> Str(<<"claim">>), signature |-> Str(<<"9kQ2sig">>)])
TxOther == Obj([kind |-> Str(<<"mint">>), amount_sol |-> Null])
TxBadKind == Obj([kind |-> Num(5, 0)])

Mint1 == Str(<<"So1anaMint111">>)

Good1 == Snap(Num(123, 6), Num(5, 0), Num(250000, 0), Num(25, 0), Num(150, 0),
              Mint1, Arr(<<TxBuyback, TxBurn>>))
Good2 == Snap(Num(5, 1), Num(-325, 2), Num(500000, 0), Num(50, 0), Num(-10, 0),
              Undef, Arr(<<TxClaim>>))
ZeroSnap == Snap(Zero, Zero, Zero, Zero, Zero, Undef, Arr(<<>>))
BadTxs == Snap(Num(1, 7), Undef, Zero, Num(375, 1), Zero, Mint1, Str(<<"none">>))
NullTx == Snap(Zero, Num(-4, 2), Zero, Zero, Zero, Undef, Arr(<<TxBurn, Null>>))
HugePrice == ObjOf([price_usd |-> Inf])

StaticHtml == <<"(static html)">>
InitialDom(P) == [id \in P |-> StaticHtml]

NotEvaluated == <<"(not evaluated)">>

Event(kind, id, resp, r, prev) ==
    [kind |-> kind, id |-> id, resp |-> resp, d |-> r.d, rendered |-> r.rendered,
     saved |-> r.saved, logged |-> r.logged, threw |-> r.threw, prev |-> prev]
Nothing == [d |-> Undef, rendered |-> FALSE, saved |-> FALSE, logged |-> FALSE,
            threw |-> FALSE]

Void == [k |-> "void"]
None == [k |-> "none"]

\* location.hostname and window.API_BASE
PageSettings == {<<<<"localhost">>, Undef>>,
                 <<<<"127.", "0.0.1">>, Str(<<"/">>)>>,
                 <<<<"tolkien.example">>, Undef>>,
                 <<<<"tolkien.example">>, Str(<<"/", "/">>)>>,
                 <<<<"tolkien.example">>, Str(<<"https://api.tolkien.example", "/", "/">>)>>}
PresentSets == {Slots, Slots \ {"txList", "statPrice"}}
CacheSlots == {Absent, Corrupt, Text(Num(5, 0)), Text(NullTx)}
Bodies == {Good1, Good2, ZeroSnap, Null, BadTxs, HugePrice}
Responses == {Response(TRUE, FALSE, Absent), Response(FALSE, FALSE, Text(Good2)),
              Response(FALSE, TRUE, Corrupt)}
             \cup {Response(FALSE, TRUE, Text(b)) : b \in Bodies}

PureIdle == arg = Undef /\ out = <<>> /\ phase = "idle"

-----------------------------------------------------------------------------
(* The page *)

Init ==
    /\ \E p \in PageSettings : hostname = p[1] /\ override = p[2]
    /\ present \in PresentSets
    /\ cache \in CacheSlots
    /\ cache0 = cache
    /\ apiBase = NotEvaluated
    /\ dom = InitialDom(present)
    /\ pc = "load"
    /\ timerArmed = FALSE
    /\ inflight = {}
    /\ nextId = 0
    /\ loads = 0
    /\ shown = 0
    /\ lastStored = None
    /\ ev = Event("init", 0, NoResponse, Nothing, 0)
    /\ PureIdle

\* the script runs (lines 4, 5 and 84 to 87): API_BASE, the initial paint, the
\* first fetchDashboard() and setInterval; a throwing initial paint ends it
Load ==
    /\ pc = "load"
    /\ nextId < MaxRequests
    /\ \E readOk \in BOOLEAN :
       \E base \in {ResolveApiBase(hostname, override)} :
       \E initial \in {loadCache(cache, readOk)} :
       \E paint \in {IF Truthy(initial) THEN renderDashboard(initial, dom)
                     ELSE [dom |-> dom, threw |-> FALSE]} :
            /\ apiBase' = base
            /\ dom' = paint.dom
            /\ ev' = Event("load", 0, NoResponse,
                           [d |-> initial, rendered |-> Truthy(initial),
                            saved |-> FALSE, logged |-> FALSE,
                            threw |-> paint.threw], 0)
            /\ loads' = loads + 1
            /\ shown' = IF Truthy(initial) THEN -1 ELSE 0
            /\ IF paint.threw
               THEN /\ pc' = "crashed"
                    /\ UNCHANGED <<timerArmed, inflight, nextId>>
               ELSE /\ pc' = "running"
                    /\ timerArmed' = TRUE
                    /\ inflight' = OnTick(base, inflight, nextId + 1)
                    /\ nextId' = IF IssuesRequest(base) THEN nextId + 1 ELSE nextId
    /\ UNCHANGED <<hostname, override, present, cache, cache0, lastStored,
                   arg, out, phase>>

\* the interval timer fires: fetchDashboard() up to its await
Tick ==
    /\ pc = "running"
    /\ timerArmed
    /\ nextId < MaxRequests
    /\ inflight' = OnTick(apiBase, inflight, nextId + 1)
    /\ nextId' = IF IssuesRequest(apiBase) THEN nextId + 1 ELSE nextId
    /\ ev' = Event("tick", nextId', NoResponse, Nothing, shown)
    /\ UNCHANGED <<hostname, override, apiBase, present, dom, cache, pc, timerArmed,
                   loads, shown, cache0, lastStored, arg, out, phase>>

\* the response to a request in flight arrives: fetchDashboard() from its await on
Respond ==
    /\ pc = "running"
    /\ \E id \in inflight, resp \in Responses, writeOk \in BOOLEAN :
       \E r \in {fetchDashboard(resp, dom, cache, writeOk)} :
            /\ dom' = r.dom
            /\ cache' = r.cache
            /\ inflight' = inflight \ {id}
            /\ shown' = IF r.rendered THEN id ELSE shown
            /\ lastStored' = IF ~r.saved \/ lastStored = Void THEN lastStored
                             ELSE IF writeOk THEN resp.body ELSE Void
            /\ ev' = Event("respond", id, resp, r, shown)
    /\ UNCHANGED <<hostname, override, apiBase, present, pc, timerArmed, nextId,
                   loads, cache0, arg, out, phase>>

\* the user reloads the page: the document is the static one again, the timer
\* and the pending requests of the old page are gone, the cache slot stays
Reload ==
    /\ pc \in {"running", "crashed"}
    /\ loads < MaxLoads
    /\ pc' = "load"
    /\ dom' = InitialDom(present)
    /\ apiBase' = NotEvaluated
    /\ timerArmed' = FALSE
    /\ inflight' = {}
    /\ shown' = 0
    /\ ev' = Event("reload", 0, NoResponse, Nothing, 0)
    /\ UNCHANGED <<hostname, override, present, cache, nextId, loads, cache0,
                   lastStored, arg, out, phase>>

Next == Load \/ Tick \/ Respond \/ Reload

Spec == Init /\ [][Next]_vars

-----------------------------------------------------------------------------
(* The pure functions, each applied to an input drawn at the start *)

MaxMantissa == 12
MaxScale == 2

PageIdle ==
    /\ hostname = <<>> /\ override = Undef /\ apiBase = NotEvaluated
    /\ cache = Absent /\ cache0 = Absent /\ pc = "pure" /\ timerArmed = FALSE
    /\ inflight = {} /\ nextId = 0 /\ loads = 0 /\ shown = 0
    /\ lastStored = None

pageVars == <<hostname, override, apiBase, cache, cache0, pc, timerArmed, inflight,
              nextId, loads, shown, lastStored>>

NumberLike == {Undef, Null, Zero, Num(1, 7), Num(-5, 0), Inf, Str(<<"5">>),
               Str(<<"a", "b">>), Bool(TRUE), Arr(<<Num(2, 0)>>)}
CapLike == {Undef, Zero, Num(250000, 0), Num(-1, 0), Str(<<"0", ".", "5">>)}
TxLike == {Undef, Null, Arr(<<>>), Arr(<<TxBurn>>), Arr(<<Null>>), Str(<<"none">>),
           Obj([length |-> Num(3, 0)])}

UsableInputs ==
    {Null, Zero, Num(5, 0), Str(<<>>), Str(<<"5">>), Bool(FALSE), Bool(TRUE),
     Arr(<<>>), Arr(<<Num(1, 0)>>), Obj(<<>>)}
    \cup {ObjOf([price_usd |-> p, market_cap_usd |-> c, transactions |-> t]) :
            p \in NumberLike, c \in CapLike, t \in TxLike}

InitUsable ==
    /\ arg \in UsableInputs /\ out = FALSE /\ phase = "in"
    /\ present = {} /\ dom = InitialDom({})
    /\ ev = Event("init", 0, NoResponse, Nothing, 0)
    /\ PageIdle

ApplyIsUsable ==
    /\ phase = "in"
    /\ out' = isUsable(arg)
    /\ phase' = "out"
    /\ UNCHANGED <<pageVars, present, dom, ev, arg>>

SpecUsable == InitUsable /\ [][ApplyIsUsable]_vars

PctInputs ==
    {Undef, Null, Bool(TRUE), Bool(FALSE), Str(<<>>), Str(<<"a", "b">>),
     Str(<<"-", "3">>), Str(<<"7", ".", "2", "5">>), Inf, Arr(<<>>),
     Arr(<<Num(5, 0)>>), Obj(<<>>), Num(-325, 2), Num(1234567, 2)}
    \cup {Num(m, e) : m \in (0 - MaxMantissa)..MaxMantissa, e \in 0..MaxScale}

InitPct ==
    /\ arg \in PctInputs /\ out = <<>> /\ phase = "in"
    /\ present = {} /\ dom = InitialDom({})
    /\ ev = Event("init", 0, NoResponse, Nothing, 0)
    /\ PageIdle

ApplyFmtPct ==
    /\ phase = "in"
    /\ out' = fmtPct(arg)
    /\ phase' = "out"
    /\ UNCHANGED <<pageVars, present, dom, ev, arg>>

SpecPct == InitPct /\ [][ApplyFmtPct]_vars

BadKind == Snap(Num(2, 0), Null, Zero, Str(<<"4", "0">>), Inf, Num(7, 0),
                Arr(<<TxOther, TxBadKind>>))
NoTxs == ObjOf([market_cap_usd |-> Num(1, 0), token_mint |-> Str(<<>>)])
OtherTx == Snap(Zero, Num(12, 1), Zero, Undef, Null, Bool(TRUE), Arr(<<TxOther>>))

RenderInputs == {Good1, Good2, ZeroSnap, BadTxs, NullTx, HugePrice, BadKind, NoTxs,
                 OtherTx, Num(5, 0)}

\* the pages: every element, none, and every element but one
PresentFamilies == {Slots, {}} \cup {Slots \ {s} : s \in Slots}

\* the document before the call: the static one, or one an earlier render left
PriorDoms(P) == {InitialDom(P), renderDashboard(Good1, InitialDom(P)).dom}

InitRender ==
    /\ arg \in RenderInputs
    /\ present \in PresentFamilies
    /\ dom \in PriorDoms(present)
    /\ out = dom
    /\ phase = "in"
    /\ ev = Event("init", 0, NoResponse, Nothing, 0)
    /\ PageIdle

ApplyRender ==
    /\ phase = "in"
    /\ \E r \in {renderDashboard(arg, dom)} :
        /\ dom' = r.dom
        /\ ev' = Event("render", 0, NoResponse,
                       [d |-> arg, rendered |-> TRUE, saved |-> FALSE,
                        logged |-> FALSE, threw |-> r.threw], 0)
    /\ phase' = "out"
    /\ UNCHANGED <<pageVars, present, arg, out>>

SpecRender == InitRender /\ [][ApplyRender]_vars

-----------------------------------------------------------------------------
(* The specification's notions *)

\* v > 0 as JavaScript compares a JSON value with 0
Positive(v) == Gt0(ToNumber(v))

NonEmptyList(v) == v.k = "arr" /\ v.a # <<>>

\* "non-null and (price_usd > 0 or market_cap_usd > 0 or transactions is a
\* non-empty ordered sequence)"
UsableBySpec(d) ==
    /\ d # Null
    /\ \/ Positive(Get(d, "price_usd"))
       \/ Positive(Get(d, "market_cap_usd"))
       \/ NonEmptyList(Get(d, "transactions"))

\* a 2xx response with a well-formed JSON body
WellFormed(resp) == ~resp.rejected /\ resp.ok /\ resp.body.k = "text"

UnusableResponse(resp) == WellFormed(resp) /\ ~UsableBySpec(JSONparse(resp.body))
UsableResponse(resp) == WellFormed(resp) /\ UsableBySpec(JSONparse(resp.body))

\* a network or transport rejection, a non-success status, a malformed body
FailedResponse(resp) == resp.rejected \/ ~resp.ok \/ resp.body.k = "corrupt"

\* the document the initial paint leaves when the slot holds the text c
PaintedFrom(c, P) == renderDashboard(JSONparse(c), InitialDom(P)).dom
PaintedDom == PaintedFrom(cache, present)

-----------------------------------------------------------------------------
(* C1 *)

\* C1: a well-formed 2xx response whose body is not usable leaves the DOM and
\* the cache slot as they were; after a paint from the cache and only such
\* responses, the DOM is the one rendered from the cached snapshot.
C1_NoRegression ==
    [][/\ (ev'.kind = "respond" /\ UnusableResponse(ev'.resp))
            => (dom' = dom /\ cache' = cache)
       /\ (pc' = "running" /\ shown' = -1)
            => (cache'.k = "text" /\ dom' = PaintedFrom(cache', present'))]_vars

C1_Witness ==
    /\ ev.kind = "respond" /\ UnusableResponse(ev.resp)
    /\ JSONparse(ev.resp.body) # Null
    /\ shown = -1
    /\ dom = PaintedDom /\ dom # InitialDom(present)

-----------------------------------------------------------------------------
(* C2 *)

\* C2: a rejected fetch, a non-success status and a malformed body each end
\* fetchDashboard without an exception leaving it, with the DOM and the cache
\* slot unchanged and the timer still armed; an armed timer stays armed until
\* the page is left, and each of its ticks issues a new request.
C2_FailuresAbsorbed ==
    [][/\ (ev'.kind = "respond" /\ FailedResponse(ev'.resp))
            => /\ dom' = dom /\ cache' = cache
               /\ ~ev'.threw /\ ev'.logged
               /\ timerArmed' /\ pc' = "running"
       /\ (timerArmed /\ ev'.kind # "reload") => (timerArmed' /\ pc' = "running")
       /\ (ev'.kind = "tick" /\ apiBase # <<>>)
            => (ev'.id \notin inflight /\ ev'.id \in inflight')]_vars

C2_Witness ==
    /\ ev.kind = "respond" /\ ~ev.resp.rejected /\ ~ev.resp.ok
    /\ ev.logged /\ ~ev.threw /\ timerArmed /\ pc = "running"
    /\ shown > 0 /\ dom # InitialDom(present) /\ cache.k = "text"

-----------------------------------------------------------------------------
(* C3 *)

\* C3: whatever the cache slot holds, once the script has run the initial
\* fetch has been made and the recurring timer is armed.
C3_PollingAlwaysStarts ==
    pc # "load" => (pc = "running" /\ timerArmed /\ (apiBase # <<>> => nextId > 0))

-----------------------------------------------------------------------------
(* C4 *)

AllSlashes(t) == \A i \in DOMAIN t : t[i] = "/"

\* C4: API_BASE is empty when no override is set on a non-loopback host and
\* when the override is only slashes; with an empty API_BASE no request is ever
\* issued, and the DOM and the cache slot stay as the initial paint left them.
C4_EmptyBaseNoFetch ==
    /\ (pc # "load" /\ ~Truthy(override) /\ ~isLocal(hostname)) => apiBase = <<>>
    /\ (pc # "load" /\ Truthy(override) /\ AllSlashes(override.s)) => apiBase = <<>>
    /\ (pc # "load" /\ apiBase = <<>>) =>
            /\ inflight = {} /\ nextId = 0
            /\ cache = cache0
            /\ shown \in {0, -1}
            /\ dom = IF shown = -1 THEN PaintedDom ELSE InitialDom(present)

C4_Witness ==
    /\ pc = "running" /\ apiBase = <<>> /\ ev.kind = "tick"
    /\ shown = -1 /\ Truthy(override)

-----------------------------------------------------------------------------
(* C6 *)

\* C6: as long as the storage writes succeed, the cache slot is exactly the
\* body of the last usable response processed, or what it was at the first page
\* load when there was none.
C6_CacheIsLastUsableBody ==
    lastStored # Void => cache = (IF lastStored = None THEN cache0 ELSE lastStored)

-----------------------------------------------------------------------------
(* C7 *)

\* C7: a tick issues a new request whatever is in flight and cancels nothing;
\* a usable response is saved and rendered when it resolves, whatever the
\* order of issue, so the last response to resolve is the one shown.
C7_LastResolvedWins ==
    [][/\ (ev'.kind = "tick" /\ apiBase # <<>>)
            => (ev'.id \notin inflight /\ inflight' = inflight \cup {ev'.id})
       /\ (ev'.kind = "respond" /\ UsableResponse(ev'.resp))
            => /\ shown' = ev'.id
               /\ dom' = renderDashboard(JSONparse(ev'.resp.body), dom).dom
               /\ cache' \in {cache, JSONstringify(JSONparse(ev'.resp.body))}
               /\ inflight' = inflight \ {ev'.id}]_vars

\* the snapshot now shown answers a request issued before the one shown before
C7_Witness ==
    /\ ev.kind = "respond" /\ ev.rendered
    /\ 0 < ev.id /\ ev.id < ev.prev
    /\ shown = ev.id
    /\ cache = JSONstringify(ev.d)
    /\ dom = renderDashboard(ev.d, dom).dom

-----------------------------------------------------------------------------
(* C10 *)

\* C10: from an empty cache slot, every value the slot comes to hold and every
\* snapshot given to renderDashboard is usable.
C10_OnlyUsable ==
    cache0 = Absent =>
        /\ cache.k = "text" => isUsable(JSONparse(cache))
        /\ ev.rendered => isUsable(ev.d)

-----------------------------------------------------------------------------
(* C5 *)

\* C5: isUsable(d) is true exactly when d is non-null and price_usd > 0 or
\* market_cap_usd > 0 or transactions is a non-empty list; it is false for
\* null, for the all-zero snapshot with an empty or missing list, and for a
\* snapshot whose only content is a transactions value that is no list.
C5_IsUsableIff ==
    phase = "out" =>
        /\ out = UsableBySpec(arg)
        /\ arg = Null => out = FALSE
        /\ (/\ ~Positive(Get(arg, "price_usd"))
            /\ ~Positive(Get(arg, "market_cap_usd"))
            /\ Get(arg, "transactions").k # "arr") => out = FALSE

C5_Witness ==
    /\ phase = "out" /\ out = FALSE
    /\ Truthy(Get(arg, "transactions")) /\ Get(arg, "transactions").k # "arr"

-----------------------------------------------------------------------------
(* C9 *)

\* the number fmtPct displays
Displayed(n) == ToNumber(OrElse(n, Zero))

\* C9: the output of fmtPct starts with "+" exactly when the displayed value is
\* non-negative, carries "-" when it is negative, and ends with "%".
C9_ExplicitPlus ==
    phase = "out" =>
        /\ (Head(out) = "+") <=> Ge0(Displayed(arg))
        /\ Lt0(Displayed(arg)) => "-" \in Range(out)
        /\ out[Len(out)] = "%"

-----------------------------------------------------------------------------
(* C8 *)

\* the value each slot is given, as section 4.1 derives it from the snapshot
SlotValue(s, d) ==
    CASE s = "statPrice" -> fmtPrice(Get(d, "price_usd"))
      [] s = "statVolume" -> fmtPct(Get(d, "volume_change_pct"))
      [] s = "statBuybacks" -> fmtUSD(Get(d, "buybacks_usd"))
      [] s = "statBurned" -> fmtUSD(Get(d, "burned_usd"))
      [] s = "goalLabel" -> <<"(">> \o fmtUSD(Get(d, "market_cap_usd")) \o <<" / ">>
                            \o fmtUSD(Get(d, "next_goal_usd")) \o <<")">>
      [] s = "goalPctLabel" -> ToStr(Get(d, "next_goal_progress_pct")) \o <<"%">>
      [] s = "goalFill" -> ToStr(Clamp(Get(d, "next_goal_progress_pct"))) \o <<"%">>
      [] s = "burnPctLabel" -> ToStr(Get(d, "supply_burned_pct")) \o <<"%">>
      [] s = "burnFill" -> ToStr(Clamp(Get(d, "supply_burned_pct"))) \o <<"%">>
      [] s = "contractAddress" -> ToStr(Get(d, "token_mint"))
      [] s = "txList" -> IF MapThrows(d) THEN <<"(TypeError)">> ELSE TxListHtml(d)

\* C8 as stated: after renderDashboard(d) every present slot holds the value
\* derived from d, and no absent slot exists.
C8_EverySlotWritten ==
    phase = "out" =>
        \A s \in Slots : /\ s \in DOMAIN dom <=> s \in present
                         /\ s \in present => dom[s] = SlotValue(s, arg)

\* what makes renderDashboard(d) assign slot s when its element exists
Writes(s, d) ==
    CASE s = "contractAddress" -> Truthy(Get(d, "token_mint"))
      [] s = "txList" -> ~MapThrows(d)
      [] OTHER -> TRUE

\* C8 amended: an absent slot is never touched; a present slot other than the
\* contract address and the transaction list holds the value derived from d;
\* the contract address does when d.token_mint is truthy and the transaction
\* list when building its cards does not throw, and each keeps its earlier
\* content otherwise; renderDashboard throws exactly when the list exists and
\* building the cards throws.
C8_SlotsWrittenWhenAssigned ==
    phase = "out" =>
        /\ \A s \in Slots :
            /\ s \in DOMAIN dom <=> s \in present
            /\ s \in present =>
                  dom[s] = IF Writes(s, arg) THEN SlotValue(s, arg) ELSE out[s]
        /\ ev.threw <=> ("txList" \in present /\ MapThrows(arg))

\* a render of a snapshot without token_mint over an earlier render: the price
\* is replaced, the contract address is the earlier one
C8_Witness ==
    /\ phase = "out"
    /\ {"contractAddress", "statPrice"} \subseteq present
    /\ ~Truthy(Get(arg, "token_mint"))
    /\ dom["contractAddress"] = out["contractAddress"]
    /\ out["contractAddress"] # StaticHtml
    /\ dom["statPrice"] # out["statPrice"]

====
